---- MODULE Spec2Model ----
(***************************************************************************)
(* json4e/base.py: the ECharts option builders (Series, Line, Bar, Axis,   *)
(* Legend, Tooltip) and the Chart container that accumulates them and      *)
(* renders the nested option mapping.                                      *)
(*                                                                         *)
(* Python values are modelled as follows.                                  *)
(*   - an object is a record with a cls field and one field per attribute  *)
(*     of its instance dictionary (the leading underscore of the source    *)
(*     names is dropped); an attribute that was never assigned is not in   *)
(*     the record's DOMAIN;                                                *)
(*   - a dict is a function from strings to values; dict.update is Update; *)
(*   - a list is a sequence;                                               *)
(*   - name and data are stored and handed back but never inspected by     *)
(*     the code: they are opaque tokens (strings).                         *)
(***************************************************************************)
EXTENDS Naturals, Sequences, FiniteSets, TLC

VARIABLES
    chart,      \* the Chart object (self of Chart's methods)
    entity,     \* the object the caller constructed last (None if none)
    call,       \* the last call made: its operation and its arguments
    ret,        \* the mapping the last call returned (None if it returned none)
    err,        \* the exception the last call raised (NoError if none)
    accepted    \* history: the components add_component accepted, per kind

vars == <<chart, entity, call, ret, err, accepted>>

\* The largest number of axes a chart accumulates in the model.
MaxAxes == 2

---------------------------------------------------------------------------
(* Values *)

None == [cls |-> "NoneType"]

\* None where the code only stores the value (name, data).
NoneValue == "None"

EmptyDict == [k \in {} |-> k]

NoError == "none"

\* Faulty variant: the keys already in d are kept.
Update_keeps_existing(d, u) ==
    [k \in DOMAIN d \cup DOMAIN u |-> IF k \in DOMAIN d THEN d[k] ELSE u[k]]

\* dict.update(u) on d: the keys of u overwrite those of d.
Update(d, u) ==
    [k \in DOMAIN d \cup DOMAIN u |-> IF k \in DOMAIN u THEN u[k] ELSE d[k]]

\* The classes of base.py an object of class cls is an instance of.
Bases(cls) ==
    CASE cls = "Series"  -> {"Series", "JsonRender"}
      [] cls = "Line"    -> {"Line", "Series", "JsonRender"}
      [] cls = "Bar"     -> {"Bar", "Series", "JsonRender"}
      [] cls = "Axis"    -> {"Axis", "JsonRender"}
      [] cls = "Legend"  -> {"Legend", "JsonRender"}
      [] cls = "Tooltip" -> {"Tooltip", "JsonRender"}
      [] cls = "Chart"   -> {"Chart", "JsonRender"}
      [] OTHER           -> {cls}

isinstance(obj, class) == class \in Bases(obj.cls)

---------------------------------------------------------------------------
(* Class constants *)

SUPPORTED_POS == {"top", "bottom", "left", "right"}

DEFAULT_TYPES ==
    {"line", "bar", "pie", "scatter", "effectScatter", "radar",
     "tree", "treemap", "sunburst", "boxplot", "candlestick",
     "heatmap", "map", "parallel", "lines", "graph", "sankey",
     "funnel", "gauge", "pictorialBar", "themeRiver", "custom"}

Axis_SUPPORTED_TYPE == {"category", "value", "time", "log"}

Legend_SUPPORTED_TYPE == {"plain", "scroll"}

SUPPORTED_ORIENT == {"horizontal", "vertical"}

TRIGGERS == {"axis", "item"}

AXISPOINTER_TYPES == {"line", "shadow", "none", "cross"}

---------------------------------------------------------------------------
(* _check_valid: TRUE when it returns, FALSE when it raises TypeError. *)

\* Faulty variant: never raises.
check_valid_accepts_all(item, checklist) == TRUE

check_valid(item, checklist) == item \in checklist

---------------------------------------------------------------------------
(* Constructors.  A call either returns the new object or raises: the      *)
(* result is [obj, err], with obj = None when the call raised.             *)

Return(obj) == [obj |-> obj, err |-> NoError]

Raise(exception) == [obj |-> None, err |-> exception]

Series_init(cls, assigned_type, name, data, kwargs) ==
    IF check_valid(assigned_type, DEFAULT_TYPES)
    THEN Return([cls |-> cls, type |-> assigned_type, name |-> name,
                 data |-> data, optional_args |-> kwargs])
    ELSE Raise("TypeError")

Line_init(name, data, kwargs) == Series_init("Line", "line", name, data, kwargs)

Bar_init(name, data, kwargs) == Series_init("Bar", "bar", name, data, kwargs)

Axis_init(assigned_type, name, pos, data, kwargs) ==
    IF check_valid(assigned_type, Axis_SUPPORTED_TYPE)
    THEN Return([cls |-> "Axis", atype |-> assigned_type, pos |-> pos,
                 name |-> name, data |-> data, optional_args |-> kwargs])
    ELSE Raise("TypeError")

Legend_init(position, data, assigned_type, orient, kwargs) ==
    IF check_valid(orient, SUPPORTED_ORIENT)
    THEN Return([cls |-> "Legend", data |-> data, orient |-> orient,
                 type |-> assigned_type, pos |-> position,
                 optional_args |-> kwargs])
    ELSE Raise("TypeError")

Tooltip_init(trigger, axis_pointer_type, kwargs) ==
    IF check_valid(trigger, TRIGGERS)
    THEN Return([cls |-> "Tooltip", trigger |-> trigger,
                 axis_pointertype |-> axis_pointer_type,
                 optional_args |-> kwargs])
    ELSE Raise("TypeError")

Chart_init(text, subtext, axis_enabled, animation, kwargs) ==
    LET common ==
            [cls |-> "Chart", text |-> text, subtext |-> subtext,
             axis_enabled |-> axis_enabled, animation |-> animation,
             series |-> <<>>, optional_args |-> kwargs,
             components |-> [legend |-> None, tooltip |-> None,
                             series |-> None, toolbox |-> None,
                             visualMap |-> None]]
    IN  IF axis_enabled
        THEN Update(common, [x_axis |-> <<>>, y_axis |-> <<>>])
        ELSE common

---------------------------------------------------------------------------
(* Axis methods *)

Axis_position(self) == self.pos

\* Faulty variant: top is not taken as horizontal.
Axis_x_axis_bottom_only(self) == self.pos = "bottom"

Axis_x_axis(self) == IF self.pos \in {"bottom", "top"} THEN TRUE ELSE FALSE

Axis_y_axis(self) == ~Axis_x_axis(self)

---------------------------------------------------------------------------
(* The json properties of the leaf classes *)

Series_json(self) ==
    LET jsondict == [name |-> self.name, data |-> self.data,
                     type |-> self.type]
    IN  IF self.optional_args # None
        THEN Update(jsondict, self.optional_args)
        ELSE jsondict

Axis_json(self) ==
    LET jsondict == [name |-> self.name, type |-> self.atype,
                     data |-> self.data, position |-> self.pos]
    IN  IF self.optional_args # None
        THEN Update(jsondict, self.optional_args)
        ELSE jsondict

Legend_json(self) ==
    LET jsondict == [orient |-> self.orient, data |-> self.data,
                     x |-> self.pos[1], y |-> self.pos[2],
                     type |-> self.type]
    IN  IF self.optional_args # None
        THEN Update(jsondict, self.optional_args)
        ELSE jsondict

Tooltip_json(self) ==
    LET jsondict == [trigger |-> self.trigger,
                     axisPointer |-> [type |-> self.axis_pointertype]]
    IN  IF self.optional_args # None
        THEN Update(jsondict, self.optional_args)
        ELSE jsondict

\* obj.json for a component: the property of obj's class.
json(obj) ==
    CASE isinstance(obj, "Series")  -> Series_json(obj)
      [] isinstance(obj, "Axis")    -> Axis_json(obj)
      [] isinstance(obj, "Legend")  -> Legend_json(obj)
      [] isinstance(obj, "Tooltip") -> Tooltip_json(obj)

---------------------------------------------------------------------------
(* Chart methods *)

\* Faulty variant: a slot already held is not overwritten.
set_component_keeps_first(self, key, component) ==
    IF self.components[key] # None
    THEN [self |-> self, err |-> NoError]
    ELSE [self |-> [self EXCEPT !.components[key] = component],
          err |-> NoError]

\* Faulty variant: a Tooltip is stored in the toolbox slot.
set_component_tooltip_as_toolbox(self, key, component) ==
    LET k == IF key = "tooltip" THEN "toolbox" ELSE key
    IN  [self |-> [self EXCEPT !.components[k] = component], err |-> NoError]

\* self._components[key] = component
set_component(self, key, component) ==
    [self |-> [self EXCEPT !.components[key] = component], err |-> NoError]

\* Faulty variant: the component is inserted first.
append_axis_in_front(self, attr, component) ==
    IF attr \in DOMAIN self
    THEN [self |-> [self EXCEPT ![attr] = <<component>> \o @],
          err |-> NoError]
    ELSE [self |-> self, err |-> "AttributeError"]

\* self._x_axis.append(component), self._y_axis.append(component): the
\* attribute exists only if __init__ assigned it.
append_axis(self, attr, component) ==
    IF attr \in DOMAIN self
    THEN [self |-> [self EXCEPT ![attr] = Append(@, component)],
          err |-> NoError]
    ELSE [self |-> self, err |-> "AttributeError"]

\* Faulty variant: the final else returns instead of raising.
add_component_ignores_unknown(self, component) ==
    IF isinstance(component, "Series")
    THEN set_component(self, "series", component)
    ELSE IF isinstance(component, "Legend")
    THEN set_component(self, "legend", component)
    ELSE IF isinstance(component, "Tooltip")
    THEN set_component(self, "tooltip", component)
    ELSE IF isinstance(component, "Axis")
    THEN IF Axis_x_axis(component)
         THEN append_axis(self, "x_axis", component)
         ELSE append_axis(self, "y_axis", component)
    ELSE [self |-> self, err |-> NoError]

add_component(self, component) ==
    IF isinstance(component, "Series")
    THEN set_component(self, "series", component)
    ELSE IF isinstance(component, "Legend")
    THEN set_component(self, "legend", component)
    ELSE IF isinstance(component, "Tooltip")
    THEN set_component(self, "tooltip", component)
    ELSE IF isinstance(component, "Axis")
    THEN IF Axis_x_axis(component)
         THEN append_axis(self, "x_axis", component)
         ELSE append_axis(self, "y_axis", component)
    ELSE [self |-> self, err |-> "TypeError"]

\* [item.json for item in list]
json_list(list) == [i \in 1..Len(list) |-> json(list[i])]

\* Faulty variant: no default for an empty list.
list_or_keeps_empty(list, default) == list

\* list or default: an empty list is false.
list_or(list, default) == IF list = <<>> THEN default ELSE list

Chart_json(self) ==
    LET title_animation ==
            [title |-> [text |-> self.text, subtext |-> self.subtext],
             animation |-> self.animation]
        held == {key \in DOMAIN self.components :
                    self.components[key] # None}
        with_components ==
            Update(title_animation,
                   [key \in held |-> json(self.components[key])])
        with_axes ==
            IF self.axis_enabled
            THEN Update(with_components,
                        [xAxis |-> list_or(json_list(self.x_axis),
                                           <<EmptyDict>>),
                         yAxis |-> list_or(json_list(self.y_axis),
                                           <<EmptyDict>>)])
            ELSE with_components
    IN  Update(with_axes, self.optional_args)

---------------------------------------------------------------------------
(* Arguments of the calls.  A keyword argument named like a parameter is   *)
(* bound to that parameter, so the keys of kwargs are never parameter      *)
(* names: Series and Axis kwargs hold no name or data, Legend kwargs no     *)
(* data or orient, Tooltip kwargs no trigger, Chart kwargs no animation.   *)

Names == {"S1", NoneValue}

Data == {"[1,2,3]", NoneValue}

Positions == SUPPORTED_POS \cup {"center"}

SeriesKwargs == {EmptyDict, [type |-> "custom", smooth |-> TRUE]}

AxisKwargs == {EmptyDict, [type |-> "log", position |-> "inside"]}

LegendKwargs == {EmptyDict, [x |-> "left", type |-> "scroll"]}

TooltipKwargs ==
    {EmptyDict, [axisPointer |-> [type |-> "cross", snap |-> TRUE]]}

ChartArgs ==
    LET Args(axis_enabled, animation, kwargs) ==
            [text |-> "T", subtext |-> "sub", axis_enabled |-> axis_enabled,
             animation |-> animation, kwargs |-> kwargs]
        background ==
            [yAxis |-> <<[type |-> "value"]>>, tooltip |-> [show |-> FALSE],
             backgroundColor |-> "#fff"]
    IN  { Args(TRUE, TRUE, EmptyDict),
          Args(FALSE, TRUE, EmptyDict),
          Args(TRUE, FALSE, [title |-> [text |-> "override"], xAxis |-> <<>>]),
          Args(TRUE, TRUE,
               [series |-> [type |-> "custom"], toolbox |-> [show |-> TRUE]]),
          Args(TRUE, TRUE, background),
          Args(FALSE, FALSE, background) }

\* Every combination, for the constructors on their own.
AllSeriesArgs ==
    [assigned_type : DEFAULT_TYPES \cup {"area", "category", "Line"},
     name : Names, data : Data, kwargs : SeriesKwargs]

AllLineArgs == [name : Names, data : Data, kwargs : SeriesKwargs]

AllAxisArgs ==
    [assigned_type : Axis_SUPPORTED_TYPE \cup {"line", "bottom"},
     name : {"x"}, pos : Positions, data : Data, kwargs : AxisKwargs]

AllLegendArgs ==
    [position : {<<"center", "top">>}, data : {"[a,b]"},
     assigned_type : Legend_SUPPORTED_TYPE \cup {"fancy"},
     orient : SUPPORTED_ORIENT \cup {"diagonal", "plain"},
     kwargs : LegendKwargs]

AllTooltipArgs ==
    [trigger : TRIGGERS \cup {"none", "line"},
     axis_pointer_type : AXISPOINTER_TYPES \cup {"laser"},
     kwargs : TooltipKwargs]

\* A few of them, for the components a chart accumulates.
SeriesArgs ==
    { [assigned_type |-> "bar", name |-> "S1", data |-> "[1,2,3]",
       kwargs |-> [type |-> "custom", smooth |-> TRUE]],
      [assigned_type |-> "area", name |-> "S1", data |-> "[1,2,3]",
       kwargs |-> EmptyDict] }

LineArgs == {[name |-> "L1", data |-> NoneValue, kwargs |-> EmptyDict]}

AxisArgs ==
    { [assigned_type |-> "value", name |-> "x", pos |-> p,
       data |-> NoneValue,
       kwargs |-> IF p = "right"
                  THEN [type |-> "log", position |-> "inside"]
                  ELSE EmptyDict] : p \in Positions }
    \cup
    { [assigned_type |-> "bottom", name |-> "x", pos |-> "bottom",
       data |-> NoneValue, kwargs |-> EmptyDict] }

LegendArgs ==
    { [position |-> <<"center", "top">>, data |-> "[a,b]",
       assigned_type |-> "plain", orient |-> "horizontal",
       kwargs |-> EmptyDict],
      [position |-> <<"center", "top">>, data |-> "[a,b]",
       assigned_type |-> "fancy", orient |-> "vertical",
       kwargs |-> [x |-> "left", type |-> "scroll"]],
      [position |-> <<"center", "top">>, data |-> "[a,b]",
       assigned_type |-> "plain", orient |-> "diagonal",
       kwargs |-> EmptyDict] }

TooltipArgs ==
    { [trigger |-> "axis", axis_pointer_type |-> "line",
       kwargs |-> EmptyDict],
      [trigger |-> "item", axis_pointer_type |-> "laser",
       kwargs |-> [axisPointer |-> [type |-> "cross", snap |-> TRUE]]],
      [trigger |-> "none", axis_pointer_type |-> "line",
       kwargs |-> EmptyDict] }

---------------------------------------------------------------------------
(* History of the components accepted, in the caller's terms. *)

KindOf(component) ==
    CASE component.cls \in {"Series", "Line", "Bar"} -> "series"
      [] component.cls = "Legend"  -> "legend"
      [] component.cls = "Tooltip" -> "tooltip"
      [] component.cls = "Axis"    -> "axis"
      [] OTHER                     -> "other"

NothingAccepted ==
    [series |-> None, legend |-> None, tooltip |-> None, axis |-> <<>>]

Accept(history, component) ==
    CASE KindOf(component) = "other" -> history
      [] KindOf(component) = "axis" ->
            [history EXCEPT !.axis = Append(@, component)]
      [] OTHER -> [history EXCEPT ![KindOf(component)] = component]

---------------------------------------------------------------------------
(* The state after Chart(text, subtext, axis_enabled, animation, **kwargs) *)

Init ==
    \E a \in ChartArgs :
        /\ chart = Chart_init(a.text, a.subtext, a.axis_enabled, a.animation,
                              a.kwargs)
        /\ call = [op |-> "Chart", args |-> a]
        /\ entity = None
        /\ ret = None
        /\ err = NoError
        /\ accepted = NothingAccepted

---------------------------------------------------------------------------
(* Calls *)

\* Constructor calls: entity = Class(...), which raises or returns the object.
NewSeries(Args) ==
    \E a \in Args :
        LET r == Series_init("Series", a.assigned_type, a.name, a.data,
                             a.kwargs)
        IN  /\ call' = [op |-> "Series", args |-> a]
            /\ entity' = r.obj
            /\ err' = r.err
            /\ ret' = None
            /\ UNCHANGED <<chart, accepted>>

NewLine(Args) ==
    \E a \in Args :
        LET r == Line_init(a.name, a.data, a.kwargs)
        IN  /\ call' = [op |-> "Line", args |-> a]
            /\ entity' = r.obj
            /\ err' = r.err
            /\ ret' = None
            /\ UNCHANGED <<chart, accepted>>

NewBar(Args) ==
    \E a \in Args :
        LET r == Bar_init(a.name, a.data, a.kwargs)
        IN  /\ call' = [op |-> "Bar", args |-> a]
            /\ entity' = r.obj
            /\ err' = r.err
            /\ ret' = None
            /\ UNCHANGED <<chart, accepted>>

NewAxis(Args) ==
    \E a \in Args :
        LET r == Axis_init(a.assigned_type, a.name, a.pos, a.data, a.kwargs)
        IN  /\ call' = [op |-> "Axis", args |-> a]
            /\ entity' = r.obj
            /\ err' = r.err
            /\ ret' = None
            /\ UNCHANGED <<chart, accepted>>

NewLegend(Args) ==
    \E a \in Args :
        LET r == Legend_init(a.position, a.data, a.assigned_type, a.orient,
                             a.kwargs)
        IN  /\ call' = [op |-> "Legend", args |-> a]
            /\ entity' = r.obj
            /\ err' = r.err
            /\ ret' = None
            /\ UNCHANGED <<chart, accepted>>

NewTooltip(Args) ==
    \E a \in Args :
        LET r == Tooltip_init(a.trigger, a.axis_pointer_type, a.kwargs)
        IN  /\ call' = [op |-> "Tooltip", args |-> a]
            /\ entity' = r.obj
            /\ err' = r.err
            /\ ret' = None
            /\ UNCHANGED <<chart, accepted>>

\* An object of no class of base.py.
NewOther ==
    /\ call' = [op |-> "dict", args |-> EmptyDict]
    /\ entity' = [cls |-> "dict"]
    /\ err' = NoError
    /\ ret' = None
    /\ UNCHANGED <<chart, accepted>>

\* chart.add_component(entity)
AddComponent ==
    /\ isinstance(entity, "Axis") /\ chart.axis_enabled
            => Len(chart.x_axis) + Len(chart.y_axis) < MaxAxes
    /\ LET r == add_component(chart, entity)
       IN  /\ chart' = r.self
           /\ err' = r.err
           /\ accepted' = IF r.err = NoError
                          THEN Accept(accepted, entity)
                          ELSE accepted
    /\ call' = [op |-> "add_component"]
    /\ ret' = None
    /\ UNCHANGED entity

\* Faulty variant: the mapping is built in self._optional_args itself.
ChartJson_aliases_optional_args ==
    /\ ret' = Chart_json(chart)
    /\ chart' = [chart EXCEPT !.optional_args = Chart_json(chart)]
    /\ call' = [op |-> "json", on |-> "chart"]
    /\ err' = NoError
    /\ UNCHANGED <<entity, accepted>>

\* chart.json
ChartJson ==
    /\ ret' = Chart_json(chart)
    /\ call' = [op |-> "json", on |-> "chart"]
    /\ err' = NoError
    /\ UNCHANGED <<chart, entity, accepted>>

\* entity.json, for an entity of a class of base.py
EntityJson ==
    /\ isinstance(entity, "JsonRender")
    /\ ret' = json(entity)
    /\ call' = [op |-> "json", on |-> "entity"]
    /\ err' = NoError
    /\ UNCHANGED <<chart, entity, accepted>>

Next ==
    \/ NewSeries(SeriesArgs)
    \/ NewLine(LineArgs)
    \/ NewAxis(AxisArgs)
    \/ NewLegend(LegendArgs)
    \/ NewTooltip(TooltipArgs)
    \/ NewOther
    \/ AddComponent
    \/ ChartJson
    \/ EntityJson

Spec == Init /\ [][Next]_vars

\* The constructors and the json properties of the leaf classes, over
\* every combination of arguments.
NextEntity ==
    \/ NewSeries(AllSeriesArgs)
    \/ NewLine(AllLineArgs)
    \/ NewBar(AllLineArgs)
    \/ NewAxis(AllAxisArgs)
    \/ NewLegend(AllLegendArgs)
    \/ NewTooltip(AllTooltipArgs)
    \/ EntityJson

SpecEntity == Init /\ [][NextEntity]_vars

---------------------------------------------------------------------------
(* Properties *)

\* The last call was the json property of the chart / of the entity.
JsonOn(target) == call.op = "json" /\ call.on = target

Slots == {"series", "legend", "tooltip"}

IsHorizontal(axis) == axis.pos \in {"top", "bottom"}

IsVertical(axis) == ~IsHorizontal(axis)

HorizontalAccepted == SelectSeq(accepted.axis, IsHorizontal)

VerticalAccepted == SelectSeq(accepted.axis, IsVertical)

\* The constructor op, which validates args[field] against allowed, raised
\* TypeError and left no object, or returned an object of its class that
\* stores the value.
Validated(op, field, allowed, attr) ==
    call.op = op =>
        IF call.args[field] \in allowed
        THEN /\ err = NoError
             /\ entity # None
             /\ entity.cls = op
             /\ entity[attr] = call.args[field]
        ELSE /\ err = "TypeError"
             /\ entity = None

\* C1: a constructor with a validated enumerated argument (Series type
\* against the 22 DEFAULT_TYPES, Axis type against category/value/time/log,
\* Legend orient against horizontal/vertical, Tooltip trigger against
\* axis/item) raises TypeError and yields no object when the value is
\* outside the allowed set, and succeeds for every member of the set.
C1_EnumValidation ==
    /\ Cardinality(DEFAULT_TYPES) = 22
    /\ Validated("Series", "assigned_type", DEFAULT_TYPES, "type")
    /\ Validated("Axis", "assigned_type",
                 {"category", "value", "time", "log"}, "atype")
    /\ Validated("Legend", "orient", {"horizontal", "vertical"}, "orient")
    /\ Validated("Tooltip", "trigger", {"axis", "item"}, "trigger")

C1_Witness ==
    /\ call.op = "Series"
    /\ call.args.assigned_type = "area"
    /\ err = "TypeError"
    /\ entity = None

\* C2 as stated: after any sequence of add_component calls, chart.json has
\* the key series / legend / tooltip iff a component of that kind has been
\* accepted, and its value is the json of the one accepted last.
C2_SlotsReflectLatest ==
    JsonOn("chart") =>
        \A k \in Slots :
            /\ k \in DOMAIN ret <=> accepted[k] # None
            /\ accepted[k] # None => ret[k] = json(accepted[k])

\* C2 amended: the same for every slot key that is not a key of the chart's
\* kwargs; a slot key of the kwargs is in chart.json with the kwargs' value.
C2_SlotsReflectLatestUnlessExtra ==
    JsonOn("chart") =>
        \A k \in Slots :
            IF k \in DOMAIN chart.optional_args
            THEN k \in DOMAIN ret /\ ret[k] = chart.optional_args[k]
            ELSE /\ k \in DOMAIN ret <=> accepted[k] # None
                 /\ accepted[k] # None => ret[k] = json(accepted[k])

C2_Witness ==
    /\ JsonOn("chart")
    /\ chart.optional_args = EmptyDict
    /\ accepted.series # None
    /\ accepted.series.cls = "Line"
    /\ ret.series = json(accepted.series)
    /\ accepted.legend = None
    /\ "legend" \notin DOMAIN ret

\* C3 as stated: with axis_enabled and no xAxis/yAxis in the kwargs,
\* chart.json's xAxis is exactly the list of the json of the accepted axes
\* whose position is top or bottom, in acceptance order, and yAxis that of
\* all the other accepted axes.
C3_AxesPartitioned ==
    (/\ JsonOn("chart")
     /\ chart.axis_enabled
     /\ DOMAIN chart.optional_args \cap {"xAxis", "yAxis"} = {})
        => /\ ret.xAxis = json_list(HorizontalAccepted)
           /\ ret.yAxis = json_list(VerticalAccepted)

\* C3 amended: xAxis (yAxis) is that list when at least one horizontal
\* (vertical) axis has been accepted, and [{}] when none has.
C3_AxesPartitionedOrDefault ==
    (/\ JsonOn("chart")
     /\ chart.axis_enabled
     /\ DOMAIN chart.optional_args \cap {"xAxis", "yAxis"} = {})
        => /\ ret.xAxis = IF HorizontalAccepted = <<>>
                          THEN <<EmptyDict>>
                          ELSE json_list(HorizontalAccepted)
           /\ ret.yAxis = IF VerticalAccepted = <<>>
                          THEN <<EmptyDict>>
                          ELSE json_list(VerticalAccepted)

C3_Witness ==
    /\ JsonOn("chart")
    /\ chart.axis_enabled
    /\ chart.optional_args = EmptyDict
    /\ Len(accepted.axis) = 2
    /\ accepted.axis[1].pos = "center"
    /\ accepted.axis[2].pos = "top"
    /\ ret.xAxis = <<json(accepted.axis[2])>>
    /\ ret.yAxis = <<json(accepted.axis[1])>>

\* C4 as stated: for a chart with axis_enabled, whatever its kwargs,
\* chart.json has xAxis and yAxis, neither is an empty list, and each is
\* [{}] when no axis of that orientation has been accepted.
C4_AxesNeverEmpty ==
    (JsonOn("chart") /\ chart.axis_enabled) =>
        /\ {"xAxis", "yAxis"} \subseteq DOMAIN ret
        /\ ret.xAxis # <<>>
        /\ ret.yAxis # <<>>
        /\ HorizontalAccepted = <<>> => ret.xAxis = <<EmptyDict>>
        /\ VerticalAccepted = <<>> => ret.yAxis = <<EmptyDict>>

\* C4 amended: the same for xAxis when the kwargs have no xAxis key, and
\* for yAxis when they have no yAxis key; both keys are always present.
C4_AxesNeverEmptyUnlessExtra ==
    (JsonOn("chart") /\ chart.axis_enabled) =>
        /\ {"xAxis", "yAxis"} \subseteq DOMAIN ret
        /\ "xAxis" \notin DOMAIN chart.optional_args =>
                /\ ret.xAxis # <<>>
                /\ HorizontalAccepted = <<>> => ret.xAxis = <<EmptyDict>>
        /\ "yAxis" \notin DOMAIN chart.optional_args =>
                /\ ret.yAxis # <<>>
                /\ VerticalAccepted = <<>> => ret.yAxis = <<EmptyDict>>

C4_Witness ==
    /\ JsonOn("chart")
    /\ chart.axis_enabled
    /\ chart.optional_args = EmptyDict
    /\ Len(accepted.axis) = 1
    /\ IsHorizontal(accepted.axis[1])
    /\ Len(ret.xAxis) = 1
    /\ ret.xAxis # <<EmptyDict>>
    /\ ret.yAxis = <<EmptyDict>>

\* The json of obj had its kwargs been empty.
BaseStructure(obj) ==
    IF obj.cls = "Chart"
    THEN Chart_json([obj EXCEPT !.optional_args = EmptyDict])
    ELSE json([obj EXCEPT !.optional_args = EmptyDict])

ExtraWins(obj, structure) ==
    LET base == BaseStructure(obj)
        extra == obj.optional_args
    IN  /\ DOMAIN structure = DOMAIN base \cup DOMAIN extra
        /\ \A k \in DOMAIN extra : structure[k] = extra[k]
        /\ \A k \in DOMAIN base \ DOMAIN extra : structure[k] = base[k]

\* C5: in the json of every entity and of the chart, a key of the kwargs has
\* the kwargs' value, also when the base structure has that key (title,
\* xAxis, yAxis, the slot keys, a Tooltip's axisPointer); every other key
\* keeps its base value.
C5_ExtraWins ==
    /\ JsonOn("chart") => ExtraWins(chart, ret)
    /\ JsonOn("entity") => ExtraWins(entity, ret)

C5_Witness ==
    /\ JsonOn("chart")
    /\ {"title", "xAxis"} \subseteq DOMAIN chart.optional_args
    /\ Len(accepted.axis) = 2
    /\ IsHorizontal(accepted.axis[1])
    /\ ret.title = [text |-> "override"]
    /\ ret.xAxis = <<>>
    /\ Len(ret.yAxis) = 1
    /\ ret.animation = chart.animation

\* C6: add_component of an object that is no Series, Legend, Tooltip or Axis
\* raises TypeError and leaves the chart, hence chart.json, as it was.
C6_UnrecognizedRejected ==
    [][(call'.op = "add_component" /\ KindOf(entity) = "other") =>
            /\ err' = "TypeError"
            /\ chart' = chart
            /\ accepted' = accepted
            /\ Chart_json(chart') = Chart_json(chart)]_vars

C6_Witness ==
    /\ call.op = "add_component"
    /\ KindOf(entity) = "other"
    /\ err = "TypeError"
    /\ accepted.series # None
    /\ accepted.axis # <<>>

\* C7: json changes no attribute of the chart or of the entity, two json
\* calls in a row on the same object return equal mappings, and the mapping
\* returned is the structure of the state the object is in.
C7_JsonPure ==
    [][/\ call'.op = "json" =>
            /\ chart' = chart
            /\ entity' = entity
            /\ accepted' = accepted
       /\ (call.op = "json" /\ call'.op = "json" /\ call'.on = call.on)
            => ret' = ret
       /\ (call'.op = "json" /\ call'.on = "chart")
            => ret' = Chart_json(chart')
       /\ (call'.op = "json" /\ call'.on = "entity")
            => ret' = json(entity')]_vars

C7_Witness ==
    /\ JsonOn("chart")
    /\ accepted.series # None
    /\ accepted.tooltip # None
    /\ accepted.axis # <<>>
    /\ ret = Chart_json(chart)
    /\ {"series", "tooltip"} \subseteq DOMAIN ret

\* C8 as stated: add_component raises iff the component is no Series,
\* Legend, Tooltip or Axis, whether the chart has axis_enabled or not; the
\* json of a chart without axis_enabled has no xAxis/yAxis unless its
\* kwargs have.
C8_FailsOnlyOnUnrecognized ==
    /\ call.op = "add_component" =>
            (err # NoError <=> KindOf(entity) = "other")
    /\ (JsonOn("chart") /\ ~chart.axis_enabled) =>
            \A k \in {"xAxis", "yAxis"} :
                k \in DOMAIN ret => k \in DOMAIN chart.optional_args

\* The attributes of the chart other than the given ones are unchanged.
SameExcept(attrs) ==
    /\ DOMAIN chart' = DOMAIN chart
    /\ \A a \in DOMAIN chart \ attrs : chart'[a] = chart[a]

\* C9: a successful add_component changes one part of the chart and no
\* other: a Series the series slot, a Legend the legend slot, a Tooltip the
\* tooltip slot, an Axis one of the two axis lists, by appending itself;
\* text, subtext, animation, axis_enabled and the kwargs never change.
C9_AddComponentFrame ==
    [][/\ SameExcept({"components", "x_axis", "y_axis"})
       /\ (call'.op = "add_component" /\ err' = NoError) =>
            CASE KindOf(entity) \in Slots ->
                    /\ SameExcept({"components"})
                    /\ chart'.components =
                         [chart.components EXCEPT ![KindOf(entity)] = entity]
              [] KindOf(entity) = "axis" ->
                    \/ /\ SameExcept({"x_axis"})
                       /\ chart'.x_axis = Append(chart.x_axis, entity)
                    \/ /\ SameExcept({"y_axis"})
                       /\ chart'.y_axis = Append(chart.y_axis, entity)
              [] OTHER -> TRUE]_vars

C9_Witness ==
    /\ call.op = "add_component"
    /\ err = NoError
    /\ KindOf(entity) = "axis"
    /\ Len(chart.x_axis) = 2
    /\ chart.x_axis[2] = entity
    /\ chart.x_axis[1] # entity
    /\ accepted.legend # None

\* C10: the toolbox and visualMap slots are None in every reachable state,
\* and chart.json has a toolbox or visualMap key only when the chart's
\* kwargs have it.
C10_ToolboxVisualMapAbsent ==
    /\ chart.components.toolbox = None
    /\ chart.components.visualMap = None
    /\ JsonOn("chart") =>
            \A k \in {"toolbox", "visualMap"} :
                k \in DOMAIN ret =>
                    /\ k \in DOMAIN chart.optional_args
                    /\ ret[k] = chart.optional_args[k]

C10_Witness ==
    /\ JsonOn("chart")
    /\ accepted.series # None
    /\ accepted.legend # None
    /\ accepted.tooltip # None
    /\ "toolbox" \in DOMAIN ret
    /\ "visualMap" \notin DOMAIN ret
    /\ chart.components.toolbox = None

====
